---- MODULE Spec2Model ----
(***************************************************************************)
(* Encounter lifecycle of moham3d/lab: VisitService and AssessmentService  *)
(* running as request handlers over the shared tables patient_visits,      *)
(* form_definitions, form_submissions, nursing_assessments and             *)
(* radiology_assessments.  A handler is a coroutine with a session of its  *)
(* own; it can be suspended at every awaited storage statement, so each    *)
(* awaited statement is one step of a task (a commit and the refresh that  *)
(* follows it are one step: the refresh only re-reads the row for the      *)
(* response).  Spec runs one request at a time; VisitConcSpec and          *)
(* AssessConcSpec interleave the steps of several requests.                *)
(***************************************************************************)
EXTENDS Integers, Sequences, FiniteSets, TLC

(* ------------------------------ bounds -------------------------------- *)
MaxVisits == 1
NumTasks == 2

(* the audit rows kept and the days the clock runs *)
MaxAuditLogs == 3

MaxClock == 3

(* ----------------------------- vocabulary ----------------------------- *)
NULL == "null"
UNSET == "unset"

OPEN == "open"
COMPLETED == "completed"
CANCELLED == "cancelled"
VisitStatus == {OPEN, COMPLETED, CANCELLED}

Kinds == {"nursing", "radiology"}
Users == {1, 2}
(* User.role: user 2 is the administrator, the others have the default role *)
UserRole == [u \in Users |-> IF u = 2 THEN "admin" ELSE "nurse"]
PatientIds == {1, 2}
ActivePatients == {1}
VisitIds == 1..(MaxVisits + 1)
Tasks == 1..NumTasks

Dates == {"d1", "d2"}
Complaints == {NULL, "c1"}
Notes == {NULL, "n1"}

NoVisit ==
  [patient_id |-> 0, visit_date |-> NULL, status |-> "none",
   chief_complaint |-> NULL, notes |-> NULL, created_by |-> 0]

NoData ==
  [visit_date |-> UNSET, status |-> UNSET, chief_complaint |-> UNSET, notes |-> UNSET]

(* an assessment row carries its key, its submission, its author and one of *)
(* its free-text columns (notes of a nursing assessment, recommendations of *)
(* a radiology assessment)                                                  *)
NoAssessment == [id |-> 0, submission_id |-> 0, assessed_by |-> 0, notes |-> NULL]

NoAssessmentData == [notes |-> UNSET]

(* numeric columns hold a number, NONE for None; a numeric field of a patch *)
(* that the request did not send is ABSENT                                   *)
NONE == -1
ABSENT == -2

(* the columns of a nursing assessment a request can set.  Temperature and  *)
(* oxygen saturation are in tenths, BMI is in tenths, weight in kg, height  *)
(* in cm                                                                    *)
NursingColumns ==
  {"temperature_celsius", "pulse_bpm", "blood_pressure_systolic",
   "blood_pressure_diastolic", "respiratory_rate_per_min",
   "oxygen_saturation_percent", "weight_kg", "height_cm", "notes"}

(* findings and diagnosis hold the lengths of their text: pad is the      *)
(* number of leading and trailing whitespace characters, body the length   *)
(* of what str.strip() leaves.  NoneText is None, UnsetText a field the    *)
(* request did not send                                                    *)
Text(pad, body) == [pad |-> pad, body |-> body]

NoneText == Text(0, -1)

UnsetText == Text(0, -2)

len(v) == v.pad + v.body

strip(v) == Text(0, v.body)

LengthColumns == {"findings", "diagnosis"}

(* the columns of a radiology assessment a request can set; notes stands   *)
(* for recommendations                                                     *)
RadiologyColumns == {"findings", "diagnosis", "notes"}

NullOf(f) ==
  IF f = "notes" THEN NULL ELSE IF f \in LengthColumns THEN NoneText ELSE NONE

UnsetOf(f) ==
  IF f = "notes" THEN UNSET ELSE IF f \in LengthColumns THEN UnsetText ELSE ABSENT

(* RadiologyAssessmentUpdate with no field set *)
NoRadiologyData == [f \in RadiologyColumns |-> UnsetOf(f)]

(* NursingAssessmentCreate with only its visit_id: every field is None *)
EmptyNursing == [f \in NursingColumns |-> NullOf(f)]

(* NursingAssessmentUpdate with no field set *)
NoNursingData == [f \in NursingColumns |-> UnsetOf(f)]

(* Field(ge=, le=) of the nursing schemas; gt=0 on whole kilograms and    *)
(* centimetres is ge=1                                                     *)
Ranges ==
  [temperature_celsius |-> <<300, 450>>, pulse_bpm |-> <<30, 200>>,
   blood_pressure_systolic |-> <<70, 250>>, blood_pressure_diastolic |-> <<40, 150>>,
   respiratory_rate_per_min |-> <<8, 60>>, oxygen_saturation_percent |-> <<700, 1000>>,
   weight_kg |-> <<1, 500>>, height_cm |-> <<1, 300>>]

FieldValid(f, v) ==
  \/ f \notin DOMAIN Ranges
  \/ v \in {NONE, ABSENT}
  \/ Ranges[f][1] <= v /\ v <= Ranges[f][2]

(* a validator that compares the two pressures only when both are sent and *)
(* also accepts equal pressures                                             *)
validate_blood_pressure_or_equal(data) ==
  \/ data.blood_pressure_diastolic \in {NONE, ABSENT}
  \/ data.blood_pressure_systolic \in {NONE, ABSENT}
  \/ data.blood_pressure_diastolic <= data.blood_pressure_systolic

(* validate_blood_pressure of the two nursing schemas: it sees the systolic *)
(* pressure of the same payload only                                        *)
validate_blood_pressure(data) ==
  \/ data.blood_pressure_diastolic \in {NONE, ABSENT}
  \/ data.blood_pressure_systolic \in {NONE, ABSENT}
  \/ data.blood_pressure_diastolic < data.blood_pressure_systolic

(* a findings check that only applies the Field lengths to the text sent *)
FindingsValid_untrimmed(v, required) ==
  IF v \in {NoneText, UnsetText} THEN ~required
  ELSE 10 <= len(v) /\ len(v) <= 1000

(* findings of the radiology schemas: Field(min_length=10, max_length=1000) *)
(* on the text sent, then validate_findings on what strip() leaves; the     *)
(* create schema requires the field                                         *)
FindingsValid(v, required) ==
  IF v \in {NoneText, UnsetText} THEN ~required
  ELSE /\ 10 <= len(v) /\ len(v) <= 1000
       /\ strip(v).body > 0
       /\ strip(v).body >= 10

(* the value validate_findings returns *)
validate_findings(v) ==
  IF v \in {NoneText, UnsetText} THEN v ELSE strip(v)

(* diagnosis of the radiology schemas: Field(max_length=500), then          *)
(* validate_diagnosis                                                       *)
DiagnosisValid(v) ==
  \/ v \in {NoneText, UnsetText}
  \/ /\ len(v) <= 500
     /\ (strip(v).body = 0 \/ strip(v).body >= 10)

(* the value validate_diagnosis returns *)
validate_diagnosis(v) ==
  IF v \in {NoneText, UnsetText} THEN v
  ELSE IF strip(v).body = 0 THEN NoneText
  ELSE strip(v)

(* what the request model accepts; required is TRUE for the create schemas *)
AssessmentValid(kind, data, required) ==
  IF kind = "nursing"
    THEN /\ \A f \in DOMAIN data : FieldValid(f, data[f])
         /\ validate_blood_pressure(data)
    ELSE /\ FindingsValid(data.findings, required)
         /\ DiagnosisValid(data.diagnosis)

(* the model instance the handler gets: the values the validators returned *)
AssessmentParsed(kind, data) ==
  IF kind = "nursing" THEN data
  ELSE [data EXCEPT !.findings = validate_findings(@),
                    !.diagnosis = validate_diagnosis(@)]

(* the dictionary get_visit_assessments returns, before it is computed *)
NoStatusInfo ==
  [has_nursing |-> FALSE, has_radiology |-> FALSE, assessments_complete |-> FALSE]

VisitFields == {"visit_date", "status", "chief_complaint", "notes"}

(* results of a service call: the returned entity, None, a ValueError      *)
(* raised by the service (named after its raise site) or an exception of   *)
(* the storage layer that the service does not catch                       *)
OK == "OK"
NotFound == "None"
PatientNotFound == "ValueError: patient not found"
CannotTransition == "ValueError: cannot transition"
OnlyCompletedReopen == "ValueError: only completed visits can be reopened"
VisitNotOpen == "ValueError: visit not found or not open"
AlreadyExists == "ValueError: assessment already exists"
ValidationError == "ValidationError"
CannotUpdateClosed == "ValueError: cannot update assessment for completed or cancelled visit"
MultipleResultsFound == "MultipleResultsFound"
IntegrityError == "IntegrityError"

(* the error kinds of the specification, as sets of service results *)
StateError == {CannotTransition, OnlyCompletedReopen, CannotUpdateClosed}
ConflictError == {AlreadyExists}
PreconditionError == {"PreconditionError"}
PermissionError == {"PermissionError"}
RawStorageError == {MultipleResultsFound, IntegrityError}

VARIABLES
  patient_visits,     \* table patient_visits: sequence of rows, visit id = index
  form_definitions,   \* table form_definitions: set of rows
  form_submissions,   \* table form_submissions: set of rows
  assessments,        \* tables nursing_assessments / radiology_assessments, by kind
  audit_logs,         \* table audit_logs: sequence of rows, oldest first
  now,                \* the clock of the server and of the database, in days
  tasks               \* request handlers: position and local variables

vars ==
  <<patient_visits, form_definitions, form_submissions, assessments, audit_logs, now, tasks>>

IdleTask ==
  [pc |-> "idle", op |-> "none", visit_id |-> 0, visit_data |-> NoData,
   kind |-> "none", patient_id |-> 0, actor |-> 0,
   visit |-> NoVisit, existing |-> -1, form_id |-> 0, submission_id |-> 0,
   assessment_id |-> 0, assessment_data |-> NoAssessmentData,
   assessment |-> NoAssessment, status_info |-> NoStatusInfo,
   has_critical_vitals |-> FALSE,
   audit_action |-> "none", resource_type |-> "none", should_log |-> FALSE,
   retention_days |-> 0, deleted |-> 0,
   result |-> "none", returned |-> NoVisit]

(* ------------------------------ helpers ------------------------------- *)
Done(t, res) == [tasks[t] EXCEPT !.pc = "done", !.result = res]

(* a transition table in which an OPEN visit cannot be completed *)
transitions_no_complete ==
  [s \in VisitStatus |->
     CASE s = OPEN -> {CANCELLED}
       [] s = COMPLETED -> {OPEN}
       [] s = CANCELLED -> {}]

(* PatientVisit.can_transition_to *)
transitions ==
  [s \in VisitStatus |->
     CASE s = OPEN -> {COMPLETED, CANCELLED}
       [] s = COMPLETED -> {OPEN}
       [] s = CANCELLED -> {}]

(* a transition check that accepts every known status as a target *)
can_transition_to_any(status, new_status) == new_status \in VisitStatus

can_transition_to(status, new_status) ==
  IF status \in DOMAIN transitions THEN new_status \in transitions[status] ELSE FALSE

(* VisitService.get_visit: the row, or NoVisit for None *)
get_visit(visit_id) ==
  IF visit_id \in 1..Len(patient_visits) THEN patient_visits[visit_id] ELSE NoVisit

(* visit_data.dict(exclude_unset=True): the fields the patch carries *)
update_data(visit_data) == {f \in VisitFields : visit_data[f] # UNSET}

(* the attributes the setattr loop changes on the object the session loaded *)
Changed(loaded, visit_data) ==
  {f \in update_data(visit_data) : visit_data[f] # loaded[f]}

(* a flush that leaves the status column out of the UPDATE *)
Flush_without_status(row, loaded, visit_data) ==
  [f \in DOMAIN row |->
     IF f \in Changed(loaded, visit_data) \ {"status"} THEN visit_data[f] ELSE row[f]]

(* the UPDATE a commit flushes after the setattr loop: only the changed      *)
(* attributes are written, the other columns keep the value the row has now  *)
Flush(row, loaded, visit_data) ==
  [f \in DOMAIN row |->
     IF f \in Changed(loaded, visit_data) THEN visit_data[f] ELSE row[f]]

(* a lookup that leaves the visit out of the WHERE clause *)
assessments_by_visit_any(kind, visit_id) ==
  {a \in assessments[kind] :
     \E s \in form_submissions : s.submission_id = a.submission_id}

(* select(<Assessment>).join(FormSubmission).where(visit_id == v) *)
assessments_by_visit(kind, visit_id) ==
  {a \in assessments[kind] :
     \E s \in form_submissions :
        s.submission_id = a.submission_id /\ s.visit_id = visit_id}

form_definitions_of(form_type) ==
  {d \in form_definitions : d.form_type = form_type /\ d.is_active = "active"}

submissions_of(visit_id, form_id) ==
  {s \in form_submissions : s.visit_id = visit_id /\ s.form_id = form_id}

(* AssessmentService.get_visit_assessments, when both lookups return *)
has_assessment(kind, visit_id) == assessments_by_visit(kind, visit_id) # {}

assessments_complete(visit_id) ==
  has_assessment("nursing", visit_id) /\ has_assessment("radiology", visit_id)

(* ------------------------------- Init --------------------------------- *)
Init ==
  /\ patient_visits = <<>>
  /\ form_definitions = {}
  /\ form_submissions = {}
  /\ assessments = [k \in Kinds |-> {}]
  /\ audit_logs = <<>>
  /\ now = 0
  /\ tasks = [t \in Tasks |-> IdleTask]

DbUnchanged ==
  UNCHANGED <<patient_visits, form_definitions, form_submissions, assessments, audit_logs, now>>


(* ----------------------- requests entering -------------------------- *)
(* the number of create_visit requests in flight *)
CreatingVisits == Cardinality({u \in Tasks : tasks[u].op = "create_visit" /\ tasks[u].pc # "done"})

(* POST /visits/ *)
BeginCreateVisit(t, users, dates, complaints, notes) ==
  /\ tasks[t].pc = "idle"
  /\ Len(patient_visits) + CreatingVisits < MaxVisits
  /\ \E p \in PatientIds, d \in dates, c \in complaints, n \in notes, a \in users :
       tasks' = [tasks EXCEPT ![t] =
                   [IdleTask EXCEPT !.pc = "cv_patient", !.op = "create_visit",
                                    !.patient_id = p, !.actor = a,
                                    !.visit_data = [NoData EXCEPT !.visit_date = d,
                                                                  !.chief_complaint = c,
                                                                  !.notes = n]]]
  /\ DbUnchanged

(* the patches PUT /visits/{id} is called with *)
StatusPatches == {[NoData EXCEPT !.status = s] : s \in VisitStatus \cup {NULL}}

NotesPatches == {[NoData EXCEPT !.notes = n] : n \in Notes}

MixedPatches ==
  {[NoData EXCEPT !.status = s, !.notes = "n1"] : s \in VisitStatus}

VisitUpdates == {NoData} \cup StatusPatches \cup NotesPatches \cup MixedPatches

(* PUT /visits/{id} *)
BeginUpdateVisit(t, users, ids, patches) ==
  /\ tasks[t].pc = "idle"
  /\ \E v \in ids, d \in patches, a \in users :
       tasks' = [tasks EXCEPT ![t] =
                   [IdleTask EXCEPT !.pc = "uv_read", !.op = "update_visit",
                                    !.visit_id = v, !.actor = a, !.visit_data = d]]
  /\ DbUnchanged

(* VisitService.complete_visit: update_visit with VisitUpdate(status=COMPLETED) *)
complete_visit(t, users, ids) ==
  /\ tasks[t].pc = "idle"
  /\ \E v \in ids, a \in users :
       tasks' = [tasks EXCEPT ![t] =
                   [IdleTask EXCEPT !.pc = "uv_read", !.op = "complete_visit",
                                    !.visit_id = v, !.actor = a,
                                    !.visit_data = [NoData EXCEPT !.status = COMPLETED]]]
  /\ DbUnchanged

(* VisitService.cancel_visit: update_visit with VisitUpdate(status=CANCELLED) *)
cancel_visit(t, users, ids) ==
  /\ tasks[t].pc = "idle"
  /\ \E v \in ids, a \in users :
       tasks' = [tasks EXCEPT ![t] =
                   [IdleTask EXCEPT !.pc = "uv_read", !.op = "cancel_visit",
                                    !.visit_id = v, !.actor = a,
                                    !.visit_data = [NoData EXCEPT !.status = CANCELLED]]]
  /\ DbUnchanged

(* POST /visits/{id}/reopen *)
BeginReopenVisit(t, users, ids) ==
  /\ tasks[t].pc = "idle"
  /\ \E v \in ids, a \in users :
       tasks' = [tasks EXCEPT ![t] =
                   [IdleTask EXCEPT !.pc = "rv_read", !.op = "reopen_visit",
                                    !.visit_id = v, !.actor = a]]
  /\ DbUnchanged

(* the text a create_*_assessment request carries *)
CreateNotes == {"a1"}

(* the bodies POST /assessments/<kind>/ is called with, by kind *)
CreateData ==
  [k \in Kinds |->
     IF k = "nursing" THEN {[EmptyNursing EXCEPT !.notes = n] : n \in CreateNotes}
     ELSE {[findings |-> Text(0, 10), diagnosis |-> NoneText, notes |-> n] :
             n \in CreateNotes}]

(* POST /assessments/nursing/ and /assessments/radiology/: a body that the *)
(* request model rejects is answered without calling the service           *)
BeginCreateAssessment(t, users, ids, kinds, datas) ==
  /\ tasks[t].pc = "idle"
  /\ \E k \in kinds, v \in ids, a \in users :
       \E d \in datas[k] :
         LET task == [IdleTask EXCEPT !.pc = "ca_visit", !.op = "create_assessment",
                                      !.kind = k, !.visit_id = v, !.actor = a,
                                      !.assessment_data = AssessmentParsed(k, d)]
         IN tasks' = [tasks EXCEPT ![t] =
                        IF AssessmentValid(k, d, TRUE) THEN task
                        ELSE [task EXCEPT !.pc = "done", !.result = ValidationError,
                                          !.assessment_data = d]]
  /\ DbUnchanged

(* the patches PUT /assessments/<kind>/{id} is called with *)
AssessmentUpdates == {NoRadiologyData, [NoRadiologyData EXCEPT !.notes = "a2"]}

UpdateData ==
  [k \in Kinds |->
     IF k = "nursing" THEN {NoNursingData, [NoNursingData EXCEPT !.notes = "a2"]}
     ELSE AssessmentUpdates]

(* the assessment ids a request can name: the stored ones and one that is not *)
AssessmentIds == 1..(2 * MaxVisits)

(* PUT /assessments/nursing/{id} and /assessments/radiology/{id} *)
BeginUpdateAssessment(t, users, ids, kinds, patches) ==
  /\ tasks[t].pc = "idle"
  /\ \E k \in kinds, i \in ids, a \in users :
       \E d \in patches[k] :
         LET task == [IdleTask EXCEPT !.pc = "ua_read", !.op = "update_assessment",
                                      !.kind = k, !.assessment_id = i, !.actor = a,
                                      !.assessment_data = AssessmentParsed(k, d)]
         IN tasks' = [tasks EXCEPT ![t] =
                        IF AssessmentValid(k, d, FALSE) THEN task
                        ELSE [task EXCEPT !.pc = "done", !.result = ValidationError,
                                          !.assessment_data = d]]
  /\ DbUnchanged

(* GET /assessments/visit/{visit_id}/status *)
get_visit_assessment_status(t, users, ids) ==
  /\ tasks[t].pc = "idle"
  /\ \E v \in ids, a \in users :
       tasks' = [tasks EXCEPT ![t] =
                   [IdleTask EXCEPT !.pc = "gva_nursing", !.op = "get_visit_assessments",
                                    !.visit_id = v, !.actor = a]]
  /\ DbUnchanged

(* GET /assessments/visit/{visit_id}/summary *)
get_visit_assessment_summary(t, users, ids) ==
  /\ tasks[t].pc = "idle"
  /\ \E v \in ids, a \in users :
       tasks' = [tasks EXCEPT ![t] =
                   [IdleTask EXCEPT !.pc = "gva_nursing",
                                    !.op = "get_visit_assessment_summary",
                                    !.visit_id = v, !.actor = a]]
  /\ DbUnchanged

(* the response is sent and the handler's session is closed *)
Respond(t) ==
  /\ tasks[t].pc = "done"
  /\ tasks' = [tasks EXCEPT ![t] = IdleTask]
  /\ DbUnchanged

(* ------------------------- VisitService steps ------------------------- *)
(* a create_visit that does not look the patient up *)
create_visit_patient_unchecked(t) ==
  /\ tasks[t].pc = "cv_patient"
  /\ tasks' = [tasks EXCEPT ![t] = [tasks[t] EXCEPT !.pc = "cv_insert"]]
  /\ DbUnchanged

(* create_visit, lines 59-63: the patient lookup *)
create_visit_patient(t) ==
  /\ tasks[t].pc = "cv_patient"
  /\ tasks' = [tasks EXCEPT ![t] =
                 IF tasks[t].patient_id \in ActivePatients
                   THEN [tasks[t] EXCEPT !.pc = "cv_insert"]
                   ELSE Done(t, PatientNotFound)]
  /\ DbUnchanged

(* a new row whose status column defaults to "draft" *)
NewVisit_draft(visit_data, patient_id, created_by) ==
  [patient_id |-> patient_id, visit_date |-> visit_data.visit_date,
   status |-> "draft", chief_complaint |-> NULL, notes |-> visit_data.notes,
   created_by |-> created_by]

(* the row create_visit builds: patient_id, visit_date, notes and created_by *)
(* are passed to PatientVisit(...); the other columns take their defaults    *)
NewVisit(visit_data, patient_id, created_by) ==
  [patient_id |-> patient_id, visit_date |-> visit_data.visit_date,
   status |-> OPEN, chief_complaint |-> NULL, notes |-> visit_data.notes,
   created_by |-> created_by]

(* create_visit, lines 65-74: add, commit, refresh *)
create_visit(t) ==
  /\ tasks[t].pc = "cv_insert"
  /\ patient_visits' = Append(patient_visits,
                              NewVisit(tasks[t].visit_data, tasks[t].patient_id, tasks[t].actor))
  /\ tasks' = [tasks EXCEPT ![t] =
                 [Done(t, OK) EXCEPT !.visit_id = Len(patient_visits) + 1,
                                     !.returned = patient_visits'[Len(patient_visits) + 1]]]
  /\ UNCHANGED <<form_definitions, form_submissions, assessments, audit_logs, now>>

(* a check that lets a patch pass whose status is the status of the visit *)
UpdateVisitCheck_same_status(visit, visit_data) ==
  IF visit = NoVisit THEN NotFound
  ELSE IF update_data(visit_data) = {} THEN OK
  ELSE IF "status" \in update_data(visit_data)
          /\ visit_data.status # visit.status
          /\ ~can_transition_to(visit.status, visit_data.status) THEN CannotTransition
  ELSE "commit"

(* what update_visit decides between get_visit and the commit, lines 84-95 *)
UpdateVisitCheck(visit, visit_data) ==
  IF visit = NoVisit THEN NotFound
  ELSE IF update_data(visit_data) = {} THEN OK
  ELSE IF "status" \in update_data(visit_data)
          /\ ~can_transition_to(visit.status, visit_data.status) THEN CannotTransition
  ELSE "commit"

(* update_visit, lines 83-95.  A session that already holds the visit     *)
(* (reopen_visit read it before) gets its identity-mapped object back with *)
(* the attributes it loaded first.                                         *)
update_visit_read(t) ==
  /\ tasks[t].pc = "uv_read"
  /\ LET visit == IF tasks[t].visit # NoVisit THEN tasks[t].visit
                  ELSE get_visit(tasks[t].visit_id)
         check == UpdateVisitCheck(visit, tasks[t].visit_data)
     IN tasks' = [tasks EXCEPT ![t] =
                    IF check = "commit"
                      THEN [tasks[t] EXCEPT !.pc = "uv_commit", !.visit = visit]
                      ELSE [Done(t, check) EXCEPT
                              !.visit = visit,
                              !.returned = IF check = OK THEN visit ELSE NoVisit]]
  /\ DbUnchanged

(* an update that deletes the row of a visit it cancels *)
update_visit_delete_cancelled(t) ==
  /\ tasks[t].pc = "uv_commit"
  /\ patient_visits' =
       IF tasks[t].visit_data.status = CANCELLED
         THEN SubSeq(patient_visits, 1, tasks[t].visit_id - 1)
                \o SubSeq(patient_visits, tasks[t].visit_id + 1, Len(patient_visits))
         ELSE [patient_visits EXCEPT ![tasks[t].visit_id] =
                 Flush(patient_visits[tasks[t].visit_id], tasks[t].visit,
                       tasks[t].visit_data)]
  /\ tasks' = [tasks EXCEPT ![t] = Done(t, OK)]
  /\ UNCHANGED <<form_definitions, form_submissions, assessments, audit_logs, now>>

(* update_visit, lines 97-103: setattr loop, commit, refresh; the handler   *)
(* returns the refreshed row                                                *)
update_visit(t) ==
  /\ tasks[t].pc = "uv_commit"
  /\ patient_visits' =
       [patient_visits EXCEPT ![tasks[t].visit_id] =
          Flush(patient_visits[tasks[t].visit_id], tasks[t].visit, tasks[t].visit_data)]
  /\ tasks' = [tasks EXCEPT ![t] =
                 [Done(t, OK) EXCEPT !.returned = patient_visits'[tasks[t].visit_id]]]
  /\ UNCHANGED <<form_definitions, form_submissions, assessments, audit_logs, now>>

(* reopen_visit, lines 123-134 *)
reopen_visit(t) ==
  /\ tasks[t].pc = "rv_read"
  /\ LET visit == get_visit(tasks[t].visit_id)
     IN tasks' = [tasks EXCEPT ![t] =
                    IF visit = NoVisit THEN Done(t, NotFound)
                    ELSE IF visit.status # COMPLETED
                      THEN [Done(t, OnlyCompletedReopen) EXCEPT !.visit = visit]
                    ELSE [tasks[t] EXCEPT !.pc = "uv_read", !.visit = visit,
                                          !.visit_data = [NoData EXCEPT !.status = OPEN]]]
  /\ DbUnchanged

(* ---------------------- AssessmentService steps ---------------------- *)
(* a create that does not look the visit up *)
create_assessment_visit_unchecked(t) ==
  /\ tasks[t].pc = "ca_visit"
  /\ tasks' = [tasks EXCEPT ![t] =
                 [tasks[t] EXCEPT !.pc = "ca_existing",
                                  !.visit = get_visit(tasks[t].visit_id)]]
  /\ DbUnchanged

(* create_*_assessment, lines 100-108 / 201-209: the visit must be OPEN *)
create_assessment_visit(t) ==
  /\ tasks[t].pc = "ca_visit"
  /\ LET visit == get_visit(tasks[t].visit_id)
     IN tasks' = [tasks EXCEPT ![t] =
                    IF visit # NoVisit /\ visit.status = OPEN
                      THEN [tasks[t] EXCEPT !.pc = "ca_existing", !.visit = visit]
                      ELSE Done(t, VisitNotOpen)]
  /\ DbUnchanged

(* create_*_assessment, lines 110-113 / 211-214: get_*_assessment_by_visit, *)
(* whose scalar_one_or_none raises when the join returns several rows       *)
create_assessment_existing(t) ==
  /\ tasks[t].pc = "ca_existing"
  /\ LET rows == assessments_by_visit(tasks[t].kind, tasks[t].visit_id)
     IN tasks' = [tasks EXCEPT ![t] =
                    IF Cardinality(rows) > 1 THEN Done(t, MultipleResultsFound)
                    ELSE IF rows # {}
                      THEN [Done(t, AlreadyExists) EXCEPT
                              !.existing = (CHOOSE a \in rows : TRUE).id]
                    ELSE [tasks[t] EXCEPT !.pc = "fd_read", !.existing = 0]]
  /\ DbUnchanged

(* _get_or_create_form_definition, lines 32-39: the lookup *)
form_definition_read(t) ==
  /\ tasks[t].pc = "fd_read"
  /\ LET rows == form_definitions_of(tasks[t].kind)
     IN tasks' = [tasks EXCEPT ![t] =
                    IF Cardinality(rows) > 1 THEN Done(t, MultipleResultsFound)
                    ELSE IF rows # {}
                      THEN [tasks[t] EXCEPT !.pc = "fs_read",
                                            !.form_id = (CHOOSE d \in rows : TRUE).form_id]
                    ELSE [tasks[t] EXCEPT !.pc = "fd_insert"]]
  /\ DbUnchanged

(* primary keys default to uuid4(): a value no row of the table has.  The  *)
(* value stands for the n-th key drawn for a (visit, kind), so that the    *)
(* order in which rows were made does not show in the keys                 *)
KindNo(kind) == IF kind = "nursing" THEN 1 ELSE 2

NewFormId(kind) ==
  KindNo(kind) + 2 * Cardinality({d \in form_definitions : d.form_type = kind})

NewSubmissionId(visit_id, kind) ==
  2 * (visit_id - 1) + KindNo(kind)
    + 2 * MaxVisits
        * Cardinality({r \in form_submissions :
                         /\ r.visit_id = visit_id
                         /\ \E d \in form_definitions :
                              d.form_id = r.form_id /\ d.form_type = kind})

(* _get_or_create_form_definition, lines 41-49: add, commit, refresh *)
form_definition_insert(t) ==
  /\ tasks[t].pc = "fd_insert"
  /\ LET id == NewFormId(tasks[t].kind)
     IN /\ form_definitions' = form_definitions \cup
             {[form_id |-> id, form_type |-> tasks[t].kind, is_active |-> "active"]}
        /\ tasks' = [tasks EXCEPT ![t] = [tasks[t] EXCEPT !.pc = "fs_read", !.form_id = id]]
  /\ UNCHANGED <<patient_visits, form_submissions, assessments, audit_logs, now>>

(* _create_form_submission, lines 57-66: the lookup of an existing submission *)
form_submission_read(t) ==
  /\ tasks[t].pc = "fs_read"
  /\ LET rows == submissions_of(tasks[t].visit_id, tasks[t].form_id)
     IN tasks' = [tasks EXCEPT ![t] =
                    IF Cardinality(rows) > 1 THEN Done(t, MultipleResultsFound)
                    ELSE IF rows # {}
                      THEN [tasks[t] EXCEPT !.pc = "ca_insert",
                              !.submission_id = (CHOOSE r \in rows : TRUE).submission_id]
                    ELSE [tasks[t] EXCEPT !.pc = "fs_insert"]]
  /\ DbUnchanged

(* _create_form_submission, lines 68-77: add, commit, refresh *)
form_submission_insert(t) ==
  /\ tasks[t].pc = "fs_insert"
  /\ LET id == NewSubmissionId(tasks[t].visit_id, tasks[t].kind)
     IN /\ form_submissions' = form_submissions \cup
             {[submission_id |-> id, visit_id |-> tasks[t].visit_id,
               form_id |-> tasks[t].form_id, submitted_by |-> tasks[t].actor,
               submission_status |-> "submitted"]}
        /\ tasks' = [tasks EXCEPT ![t] =
                       [tasks[t] EXCEPT !.pc = "ca_insert", !.submission_id = id]]
  /\ UNCHANGED <<patient_visits, form_definitions, assessments, audit_logs, now>>

(* unique=True on <assessment>.submission_id (models/assessment.py 23, 112) *)
SubmissionIdTaken(kind, submission_id) ==
  \E a \in assessments[kind] : a.submission_id = submission_id

(* Python truth of a number or None *)
Truthy(v) == v # NONE /\ v # 0

(* round(num / den, 1), in tenths, ties to the even tenth *)
Round1(num, den) ==
  LET q == (10 * num) \div den
      r == (10 * num) % den
  IN IF 2 * r > den THEN q + 1
     ELSE IF 2 * r = den THEN q + (q % 2)
     ELSE q

(* round(weight / (height / 100) ** 2, 1), lines 121-122 and 169-170 *)
bmi(weight_kg, height_cm) == Round1(weight_kg * 10000, height_cm * height_cm)

(* a row that does not reference the submission created for it *)
NewAssessment_no_submission(kind, data, submission_id, assessed_by) ==
  [f \in DOMAIN data \cup {"id", "submission_id", "assessed_by"}
          \cup (IF kind = "nursing" THEN {"bmi"} ELSE {}) |->
     CASE f = "id" -> submission_id
       [] f = "submission_id" -> 0
       [] f = "assessed_by" -> assessed_by
       [] f = "bmi" -> NONE
       [] OTHER -> data[f]]

(* the row create_*_assessment builds, lines 118-133 / 219-227: the fields *)
(* of the body, the submission, the assessor and, for a nursing            *)
(* assessment, the BMI                                                     *)
NewAssessment(kind, data, submission_id, assessed_by) ==
  [f \in DOMAIN data \cup {"id", "submission_id", "assessed_by"}
          \cup (IF kind = "nursing" THEN {"bmi"} ELSE {}) |->
     CASE f = "id" -> submission_id  \* a key no assessment of the kind has
       [] f = "submission_id" -> submission_id
       [] f = "assessed_by" -> assessed_by
       [] f = "bmi" -> IF Truthy(data.weight_kg) /\ Truthy(data.height_cm)
                         THEN bmi(data.weight_kg, data.height_cm) ELSE NONE
       [] OTHER -> data[f]]

(* create_*_assessment, lines 128-137 / 223-231: add, commit, refresh *)
create_assessment(t) ==
  /\ tasks[t].pc = "ca_insert"
  /\ IF SubmissionIdTaken(tasks[t].kind, tasks[t].submission_id)
       THEN /\ tasks' = [tasks EXCEPT ![t] = Done(t, IntegrityError)]
            /\ UNCHANGED assessments
       ELSE /\ assessments' =
                 [assessments EXCEPT ![tasks[t].kind] =
                    @ \cup {NewAssessment(tasks[t].kind, tasks[t].assessment_data,
                                          tasks[t].submission_id, tasks[t].actor)}]
            /\ tasks' = [tasks EXCEPT ![t] = Done(t, OK)]
  /\ UNCHANGED <<patient_visits, form_definitions, form_submissions, audit_logs, now>>

(* get_*_assessment: the row with the given primary key *)
get_assessment(kind, assessment_id) ==
  {a \in assessments[kind] : a.id = assessment_id}

(* update_*_assessment, lines 146-148 / 240-242 *)
update_assessment_read(t) ==
  /\ tasks[t].pc = "ua_read"
  /\ LET rows == get_assessment(tasks[t].kind, tasks[t].assessment_id)
     IN tasks' = [tasks EXCEPT ![t] =
                    IF rows = {} THEN Done(t, NotFound)
                    ELSE [tasks[t] EXCEPT !.pc = "ua_visit",
                                          !.assessment = CHOOSE a \in rows : TRUE]]
  /\ DbUnchanged

(* select(PatientVisit).join(FormSubmission).where(submission_id == s,      *)
(* status == OPEN): the ids of the open visits the submission belongs to    *)
open_visit_of(submission_id) ==
  {v \in 1..Len(patient_visits) :
     /\ patient_visits[v].status = OPEN
     /\ \E s \in form_submissions : s.submission_id = submission_id /\ s.visit_id = v}

(* findings = Column(Text, nullable=False): an UPDATE that sets it to NULL *)
(* fails at the commit                                                     *)
NotNullViolated(kind, data) ==
  /\ kind = "radiology"
  /\ "findings" \in DOMAIN data
  /\ data.findings = NoneText

(* assessment_data.dict(exclude_unset=True): the fields the patch carries *)
assessment_update_fields(assessment_data) ==
  {f \in DOMAIN assessment_data : assessment_data[f] # UnsetOf(f)}

(* a visit lookup that does not look at the status of the visit *)
UpdateAssessmentCheck_any_status(assessment, assessment_data) ==
  IF assessment_update_fields(assessment_data) = {} THEN OK ELSE "commit"

(* what update_*_assessment decides between the lookup of the assessment   *)
(* and the commit, lines 150-162 / 244-256                                  *)
UpdateAssessmentCheck(assessment, assessment_data) ==
  IF open_visit_of(assessment.submission_id) = {} THEN CannotUpdateClosed
  ELSE IF assessment_update_fields(assessment_data) = {} THEN OK
  ELSE "commit"

(* update_*_assessment, lines 150-162 / 244-256 *)
update_assessment_visit(t) ==
  /\ tasks[t].pc = "ua_visit"
  /\ LET check == UpdateAssessmentCheck(tasks[t].assessment, tasks[t].assessment_data)
     IN tasks' = [tasks EXCEPT ![t] =
                    IF check = "commit" THEN [tasks[t] EXCEPT !.pc = "ua_commit"]
                    ELSE Done(t, check)]
  /\ DbUnchanged

(* update_nursing_assessment, lines 164-170: the BMI is recomputed when   *)
(* the patch carries a weight or a height and both merged values are true *)
RecomputesBmi(loaded, assessment_data) ==
  LET fields == assessment_update_fields(assessment_data)
      weight == IF "weight_kg" \in fields THEN assessment_data.weight_kg
                ELSE loaded.weight_kg
      height == IF "height_cm" \in fields THEN assessment_data.height_cm
                ELSE loaded.height_cm
  IN /\ fields \cap {"weight_kg", "height_cm"} # {}
     /\ Truthy(weight) /\ Truthy(height)

(* an update_data that never carries a recomputed BMI *)
update_data_without_bmi(kind, loaded, assessment_data) ==
  [f \in assessment_update_fields(assessment_data) |-> assessment_data[f]]

(* the dictionary the setattr loop walks, lines 160-170 / 254 *)
assessment_update_data(kind, loaded, assessment_data) ==
  LET fields == assessment_update_fields(assessment_data)
      recompute == kind = "nursing" /\ RecomputesBmi(loaded, assessment_data)
  IN [f \in fields \cup (IF recompute THEN {"bmi"} ELSE {}) |->
        IF f = "bmi"
          THEN bmi(IF "weight_kg" \in fields THEN assessment_data.weight_kg
                   ELSE loaded.weight_kg,
                   IF "height_cm" \in fields THEN assessment_data.height_cm
                   ELSE loaded.height_cm)
          ELSE assessment_data[f]]

(* an UPDATE that writes every column of the schema, None for the fields   *)
(* the patch does not carry                                                *)
FlushAssessment_reset(row, loaded, data) ==
  [f \in DOMAIN row |->
     IF f \in DOMAIN data THEN data[f]
     ELSE IF f \in {"id", "submission_id", "assessed_by", "bmi"} THEN row[f]
     ELSE NullOf(f)]

(* the UPDATE of an assessment row: the attributes the setattr loop changed *)
FlushAssessment(row, loaded, data) ==
  [f \in DOMAIN row |->
     IF f \in DOMAIN data /\ data[f] # loaded[f] THEN data[f] ELSE row[f]]

(* an update that replaces the row by deleting it *)
update_assessment_delete(t) ==
  /\ tasks[t].pc = "ua_commit"
  /\ assessments' =
       [assessments EXCEPT ![tasks[t].kind] =
          {a \in @ : a.id # tasks[t].assessment_id}]
  /\ tasks' = [tasks EXCEPT ![t] = Done(t, OK)]
  /\ UNCHANGED <<patient_visits, form_definitions, form_submissions, audit_logs, now>>

(* update_*_assessment, lines 172-178 / 258-264: setattr loop, commit, refresh *)
update_assessment(t) ==
  /\ tasks[t].pc = "ua_commit"
  /\ LET data == assessment_update_data(tasks[t].kind, tasks[t].assessment,
                                        tasks[t].assessment_data)
     IN IF NotNullViolated(tasks[t].kind, data)
          THEN /\ tasks' = [tasks EXCEPT ![t] = Done(t, IntegrityError)]
               /\ UNCHANGED assessments
          ELSE /\ assessments' =
                    [assessments EXCEPT ![tasks[t].kind] =
                       {IF a.id = tasks[t].assessment_id
                          THEN FlushAssessment(a, tasks[t].assessment, data)
                          ELSE a : a \in @}]
               /\ tasks' = [tasks EXCEPT ![t] = Done(t, OK)]
  /\ UNCHANGED <<patient_visits, form_definitions, form_submissions, audit_logs, now>>

(* get_visit_assessments, line 269: get_nursing_assessment_by_visit *)
get_visit_assessments_nursing(t) ==
  /\ tasks[t].pc = "gva_nursing"
  /\ LET rows == assessments_by_visit("nursing", tasks[t].visit_id)
     IN tasks' = [tasks EXCEPT ![t] =
                    IF Cardinality(rows) > 1 THEN Done(t, MultipleResultsFound)
                    ELSE [tasks[t] EXCEPT
                            !.pc = "gva_radiology",
                            !.assessment = IF rows = {} THEN NoAssessment
                                           ELSE CHOOSE a \in rows : TRUE,
                            !.existing = IF rows = {} THEN 0
                                         ELSE (CHOOSE a \in rows : TRUE).id]]
  /\ DbUnchanged

(* a flag that does not look at the oxygen saturation *)
is_critical_vitals_no_saturation(assessment) ==
  \/ /\ Truthy(assessment.temperature_celsius)
     /\ (assessment.temperature_celsius < 350 \/ assessment.temperature_celsius > 400)
  \/ /\ Truthy(assessment.pulse_bpm)
     /\ (assessment.pulse_bpm < 50 \/ assessment.pulse_bpm > 150)

(* NursingAssessment.is_critical_vitals *)
is_critical_vitals(assessment) ==
  \/ /\ Truthy(assessment.temperature_celsius)
     /\ (assessment.temperature_celsius < 350 \/ assessment.temperature_celsius > 400)
  \/ /\ Truthy(assessment.pulse_bpm)
     /\ (assessment.pulse_bpm < 50 \/ assessment.pulse_bpm > 150)
  \/ /\ Truthy(assessment.oxygen_saturation_percent)
     /\ assessment.oxygen_saturation_percent < 900

(* a dictionary that reports the visit complete when either assessment exists *)
visit_assessments_either(nursing, radiology) ==
  [has_nursing |-> nursing # 0, has_radiology |-> radiology # 0,
   assessments_complete |-> (nursing # 0 \/ radiology # 0)]

(* get_visit_assessments, lines 272-278: the dictionary built from the two  *)
(* lookups (0 stands for None)                                              *)
visit_assessments(nursing, radiology) ==
  [has_nursing |-> nursing # 0, has_radiology |-> radiology # 0,
   assessments_complete |-> (nursing # 0 /\ radiology # 0)]

(* get_visit_assessments, lines 270-278: get_radiology_assessment_by_visit *)
(* and the returned dictionary                                             *)
get_visit_assessments(t) ==
  /\ tasks[t].pc = "gva_radiology"
  /\ LET rows == assessments_by_visit("radiology", tasks[t].visit_id)
         radiology == IF rows = {} THEN 0 ELSE (CHOOSE a \in rows : TRUE).id
     IN tasks' = [tasks EXCEPT ![t] =
                    IF Cardinality(rows) > 1 THEN Done(t, MultipleResultsFound)
                    ELSE [Done(t, OK) EXCEPT
                            !.status_info = visit_assessments(tasks[t].existing, radiology),
                            \* the summary endpoint reads the flag of the nursing row
                            !.has_critical_vitals =
                               /\ tasks[t].op = "get_visit_assessment_summary"
                               /\ tasks[t].assessment # NoAssessment
                               /\ is_critical_vitals(tasks[t].assessment)]]
  /\ DbUnchanged

(* --------------------------- specifications --------------------------- *)
VisitStep(t) ==
  \/ create_visit_patient(t)
  \/ create_visit(t)
  \/ update_visit_read(t)
  \/ update_visit(t)
  \/ reopen_visit(t)
  \/ Respond(t)

AssessmentStep(t) ==
  \/ create_assessment_visit(t)
  \/ create_assessment_existing(t)
  \/ form_definition_read(t)
  \/ form_definition_insert(t)
  \/ form_submission_read(t)
  \/ form_submission_insert(t)
  \/ create_assessment(t)

UpdateAssessmentStep(t) ==
  \/ update_assessment_read(t)
  \/ update_assessment_visit(t)
  \/ update_assessment(t)

StatusStep(t) ==
  \/ get_visit_assessments_nursing(t)
  \/ get_visit_assessments(t)

OneUser == {1}

(* Spec: one request at a time.  Each handler runs from its first statement *)
(* to its response before the next request is taken.                        *)
Next ==
  \/ BeginCreateVisit(1, OneUser, {"d1"}, Complaints, Notes)
  \/ BeginUpdateVisit(1, OneUser, VisitIds, VisitUpdates)
  \/ complete_visit(1, OneUser, VisitIds)
  \/ cancel_visit(1, OneUser, VisitIds)
  \/ BeginReopenVisit(1, OneUser, VisitIds)
  \/ BeginCreateAssessment(1, OneUser, VisitIds, Kinds, CreateData)
  \/ BeginUpdateAssessment(1, OneUser, AssessmentIds, Kinds, UpdateData)
  \/ get_visit_assessment_status(1, OneUser, VisitIds)
  \/ VisitStep(1)
  \/ AssessmentStep(1)
  \/ UpdateAssessmentStep(1)
  \/ StatusStep(1)

Spec == Init /\ [][Next]_vars

(* request-per-task concurrency: the awaited statements of the handlers     *)
(* interleave.  The inputs that do not change the control flow are fixed.   *)

ConcVisitIds == 1..MaxVisits

(* the status patches that are not already sent by complete_visit and *)
(* cancel_visit                                                       *)
ConcPatches == {[NoData EXCEPT !.status = s] : s \in {OPEN, NULL}}

(* VisitConcSpec: concurrent requests on visits *)
VisitConcNext ==
  \E t \in Tasks :
    \/ BeginCreateVisit(t, OneUser, {"d1"}, {NULL}, {NULL})
    \/ BeginUpdateVisit(t, OneUser, ConcVisitIds, ConcPatches)
    \/ complete_visit(t, OneUser, ConcVisitIds)
    \/ cancel_visit(t, OneUser, ConcVisitIds)
    \/ BeginReopenVisit(t, OneUser, ConcVisitIds)
    \/ VisitStep(t)

VisitConcSpec == Init /\ [][VisitConcNext]_vars

(* AssessConcSpec: concurrent create_*_assessment requests *)
AssessConcNext ==
  \E t \in Tasks :
    \/ BeginCreateVisit(t, OneUser, {"d1"}, {NULL}, {NULL})
    \/ BeginCreateAssessment(t, OneUser, ConcVisitIds, Kinds, CreateData)
    \/ create_visit_patient(t)
    \/ create_visit(t)
    \/ Respond(t)
    \/ AssessmentStep(t)

AssessConcSpec == Init /\ [][AssessConcNext]_vars

(* the visit and the assessments the field specifications work on *)
FirstVisit == {1}

FirstVisitAssessments == {1, 2}

CreateFirstVisit(t) ==
  \/ BeginCreateVisit(t, OneUser, {"d1"}, {NULL}, {NULL})
  \/ create_visit_patient(t)
  \/ create_visit(t)
  \/ Respond(t)

(* BmiSpec: one request at a time, creates and patches of weight, height  *)
(* and notes                                                               *)
Weights == {NONE, 50, 70}

Heights == {NONE, 160, 200}

BmiCreates ==
  [k \in Kinds |->
     IF k = "nursing"
       THEN {[EmptyNursing EXCEPT !.weight_kg = w, !.height_cm = h, !.notes = "a1"] :
               w \in Weights, h \in Heights}
       ELSE CreateData[k]]

BmiPatches ==
  [k \in Kinds |->
     IF k = "nursing"
       THEN UpdateData[k]
            \cup {[NoNursingData EXCEPT !.weight_kg = w] : w \in Weights}
            \cup {[NoNursingData EXCEPT !.height_cm = h] : h \in Heights}
            \cup {[NoNursingData EXCEPT !.weight_kg = 70, !.height_cm = 160]}
       ELSE UpdateData[k]]

BmiNext ==
  \/ CreateFirstVisit(1)
  \/ BeginCreateAssessment(1, OneUser, FirstVisit, Kinds, BmiCreates)
  \/ BeginUpdateAssessment(1, OneUser, FirstVisitAssessments, Kinds, BmiPatches)
  \/ AssessmentStep(1)
  \/ UpdateAssessmentStep(1)

BmiSpec == Init /\ [][BmiNext]_vars

(* VitalsSpec: one request at a time, creates and patches of the vital     *)
(* signs of the nursing assessment, in and out of their ranges             *)
Vitals ==
  [temperature_celsius |-> {0, 340, 370, 410},
   pulse_bpm |-> {40, 80, 160, 201},
   blood_pressure_systolic |-> {100, 130, 260},
   blood_pressure_diastolic |-> {30, 60, 120},
   respiratory_rate_per_min |-> {7, 16},
   oxygen_saturation_percent |-> {690, 850, 980}]

NormalVitals ==
  [EmptyNursing EXCEPT !.temperature_celsius = 370, !.pulse_bpm = 80,
                       !.blood_pressure_systolic = 130, !.blood_pressure_diastolic = 60,
                       !.respiratory_rate_per_min = 16,
                       !.oxygen_saturation_percent = 980]

VitalsCreates ==
  [k \in {"nursing"} |->
     {EmptyNursing, NormalVitals,
      [NormalVitals EXCEPT !.temperature_celsius = 0],
      [NormalVitals EXCEPT !.blood_pressure_systolic = 100,
                           !.blood_pressure_diastolic = 120]}]

VitalsPatches ==
  [k \in {"nursing"} |->
     UNION {{[NoNursingData EXCEPT ![f] = v] : v \in Vitals[f]} : f \in DOMAIN Vitals}
     \cup {[NoNursingData EXCEPT !.blood_pressure_systolic = 100,
                                 !.blood_pressure_diastolic = 120],
           [NoNursingData EXCEPT !.blood_pressure_systolic = 130,
                                 !.blood_pressure_diastolic = 120],
           [NoNursingData EXCEPT !.temperature_celsius = NONE]}]

VitalsNext ==
  \/ CreateFirstVisit(1)
  \/ BeginCreateAssessment(1, OneUser, FirstVisit, {"nursing"}, VitalsCreates)
  \/ BeginUpdateAssessment(1, OneUser, FirstVisitAssessments, {"nursing"}, VitalsPatches)
  \/ get_visit_assessment_summary(1, OneUser, FirstVisit)
  \/ AssessmentStep(1)
  \/ UpdateAssessmentStep(1)
  \/ StatusStep(1)

VitalsSpec == Init /\ [][VitalsNext]_vars

(* CreateConcSpec: two sessions creating assessments of the first visit *)
Creators == {1, 2}

CreateConcNext ==
  \E t \in Creators :
    \/ CreateFirstVisit(t)
    \/ BeginCreateAssessment(t, OneUser, FirstVisit, Kinds, CreateData)
    \/ AssessmentStep(t)

CreateConcSpec == Init /\ [][CreateConcNext]_vars

(* RadiologySpec: one request at a time, creates and patches of the        *)
(* findings and the diagnosis of the radiology assessment, at the edges of *)
(* their lengths and with surrounding whitespace                           *)
FindingsTexts ==
  {Text(0, 9), Text(2, 8), Text(0, 10), Text(2, 10), Text(3, 0), Text(0, 1000),
   Text(0, 1001), Text(2, 999)}

DiagnosisTexts ==
  {Text(0, 0), Text(2, 0), Text(0, 9), Text(0, 10), Text(0, 500), Text(0, 501),
   Text(2, 499)}

RadiologyCreates ==
  [k \in {"radiology"} |->
     {[findings |-> f, diagnosis |-> d, notes |-> NULL] :
        f \in FindingsTexts \cup {NoneText}, d \in DiagnosisTexts \cup {NoneText}}]

RadiologyPatches ==
  [k \in {"radiology"} |->
     {NoRadiologyData}
       \cup {[NoRadiologyData EXCEPT !.findings = f] : f \in FindingsTexts \cup {NoneText}}
       \cup {[NoRadiologyData EXCEPT !.diagnosis = d] : d \in DiagnosisTexts \cup {NoneText}}]

(* the radiology assessment of the first visit *)
FirstRadiology == {2}

RadiologyNext ==
  \/ CreateFirstVisit(1)
  \/ BeginCreateAssessment(1, OneUser, FirstVisit, {"radiology"}, RadiologyCreates)
  \/ BeginUpdateAssessment(1, OneUser, FirstRadiology, {"radiology"}, RadiologyPatches)
  \/ AssessmentStep(1)
  \/ UpdateAssessmentStep(1)

RadiologySpec == Init /\ [][RadiologyNext]_vars

(* CloseConcSpec: a session that creates and patches the nursing           *)
(* assessment of the first visit next to a session that completes or       *)
(* cancels that visit                                                      *)
FirstNursing == {1}

CloseConcNext ==
  \/ CreateFirstVisit(1)
  \/ BeginCreateAssessment(1, OneUser, FirstVisit, {"nursing"}, CreateData)
  \/ BeginUpdateAssessment(1, OneUser, FirstNursing, {"nursing"}, UpdateData)
  \/ AssessmentStep(1)
  \/ UpdateAssessmentStep(1)
  \/ complete_visit(2, OneUser, FirstVisit)
  \/ cancel_visit(2, OneUser, FirstVisit)
  \/ update_visit_read(2)
  \/ update_visit(2)
  \/ Respond(2)

CloseConcSpec == Init /\ [][CloseConcNext]_vars

(* --------------------------- AuditService ----------------------------- *)
(* the action and resource type strings the callers pass *)
AuditActions == {"CREATE", "UPDATE", "DELETE", "READ", "LOGIN", "LOGOUT", "TOKEN_REFRESH"}

ResourceTypes == {"patient", "visit", "assessment", "document", "user", "report"}

(* AuditService.should_log_action, lines 290-314 *)
should_log_action(action, resource_type) ==
  \/ action \in {"CREATE", "UPDATE", "DELETE"}
  \/ resource_type \in {"patient", "assessment", "document"}
  \/ action \in {"LOGIN", "LOGOUT", "TOKEN_REFRESH"}
  \/ resource_type = "user" /\ action \in {"CREATE", "UPDATE", "DELETE"}

(* a caller asks whether an action is to be logged *)
ClassifyAction(t, actions, resource_types) ==
  /\ tasks[t].pc = "idle"
  /\ \E a \in actions, r \in resource_types :
       tasks' = [tasks EXCEPT ![t] =
                   [IdleTask EXCEPT !.pc = "done", !.op = "should_log_action",
                                    !.audit_action = a, !.resource_type = r,
                                    !.should_log = should_log_action(a, r),
                                    !.result = OK]]
  /\ DbUnchanged

(* str.upper() and str.lower() on the strings the callers pass *)
upper(str) ==
  CASE str = "read" -> "READ"
    [] str = "Visit" -> "VISIT"
    [] OTHER -> str

lower(str) ==
  CASE str = "Visit" -> "visit"
    [] str = "READ" -> "read"
    [] OTHER -> str

(* AuditLog.create_log_entry, models/audit.py 50-80; the timestamp is the *)
(* server default now() of the insert                                     *)
create_log_entry(user_id, action, resource_type, resource_id) ==
  [user_id |-> user_id, action |-> upper(action),
   resource_type |-> lower(resource_type), resource_id |-> resource_id,
   timestamp |-> now]

(* AuditService.log_action, lines 23-69: add, commit, refresh *)
log_action(t, users, actions, resource_types, ids) ==
  /\ tasks[t].pc = "idle"
  /\ Len(audit_logs) < MaxAuditLogs
  /\ \E u \in users, a \in actions, r \in resource_types, i \in ids :
       /\ audit_logs' = Append(audit_logs, create_log_entry(u, a, r, i))
       /\ tasks' = [tasks EXCEPT ![t] =
                      [IdleTask EXCEPT !.pc = "done", !.op = "log_action",
                                       !.actor = u, !.audit_action = a,
                                       !.resource_type = r, !.visit_id = i,
                                       !.result = OK]]
  /\ UNCHANGED <<patient_visits, form_definitions, form_submissions, assessments, now>>

(* a DELETE that also takes the rows written at the cutoff *)
delete_audit_logs_through(cutoff_date) ==
  SelectSeq(audit_logs, LAMBDA e : ~(e.timestamp <= cutoff_date))

(* delete(AuditLog).where(AuditLog.timestamp < cutoff_date), line 232: the *)
(* rows that stay                                                          *)
delete_audit_logs(cutoff_date) ==
  SelectSeq(audit_logs, LAMBDA e : ~(e.timestamp < cutoff_date))

(* the retention_days cleanup_old_logs is called with; the configured     *)
(* AUDIT_LOG_RETENTION_DAYS is one of them                                *)
RetentionDays == {1, 2}

(* AuditService.cleanup_old_logs, lines 217-238: execute, commit *)
cleanup_old_logs(t, retentions) ==
  /\ tasks[t].pc = "idle"
  /\ \E retention_days \in retentions :
       LET cutoff_date == now - retention_days
       IN /\ audit_logs' = delete_audit_logs(cutoff_date)
          /\ tasks' = [tasks EXCEPT ![t] =
                         [IdleTask EXCEPT !.pc = "done", !.op = "cleanup_old_logs",
                                          !.retention_days = retention_days,
                                          !.deleted = Len(audit_logs) - Len(audit_logs'),
                                          !.result = OK]]
  /\ UNCHANGED <<patient_visits, form_definitions, form_submissions, assessments, now>>

(* a day passes *)
Tick ==
  /\ now < MaxClock
  /\ now' = now + 1
  /\ UNCHANGED <<patient_visits, form_definitions, form_submissions, assessments,
                 audit_logs, tasks>>

(* AuditSpec: the audit service called one request at a time, next to the *)
(* creation of a visit                                                    *)
AuditNext ==
  \/ CreateFirstVisit(1)
  \/ ClassifyAction(1, AuditActions, ResourceTypes)
  \/ log_action(1, OneUser, {"read", "DELETE"}, {"Visit"}, FirstVisit)
  \/ cleanup_old_logs(1, RetentionDays)
  \/ Tick

AuditSpec == Init /\ [][AuditNext]_vars

(* ------------------------------ claims -------------------------------- *)
Visits == 1..Len(patient_visits)

(* a finished request of one of the given operations *)
Finished(t, ops) == tasks[t].pc = "done" /\ tasks[t].op \in ops

(* a request that asks for a status transition *)
IsTransition(t) ==
  /\ tasks[t].op \in {"update_visit", "complete_visit", "cancel_visit", "reopen_visit"}
  /\ "status" \in update_data(tasks[t].visit_data)

(* C1: every visit whose status is COMPLETED has both a nursing and a *)
(* radiology assessment recorded for it.                               *)
C1_CompletedHasBothAssessments ==
  \A v \in Visits :
    patient_visits[v].status = COMPLETED => assessments_complete(v)

(* C2: completeVisit on an OPEN visit that lacks the nursing or the       *)
(* radiology assessment fails with PreconditionError and the visit stays  *)
(* OPEN.                                                                  *)
C2_CompleteIncompleteFails ==
  \A t \in Tasks :
    ( /\ Finished(t, {"complete_visit"})
      /\ tasks[t].visit.status = OPEN
      /\ ~assessments_complete(tasks[t].visit_id) )
    => /\ tasks[t].result \in PreconditionError
       /\ patient_visits[tasks[t].visit_id].status = OPEN

(* C3: updateVisit with the patch {status: COMPLETED} on an existing OPEN *)
(* visit succeeds and returns that visit with status COMPLETED, whether   *)
(* or not assessments have been recorded for it.                          *)
C3_UpdateToCompletedSucceeds ==
  \A t \in Tasks :
    ( /\ Finished(t, {"update_visit"})
      /\ tasks[t].visit_data = [NoData EXCEPT !.status = COMPLETED]
      /\ tasks[t].visit.status = OPEN )
    => /\ tasks[t].result = OK
       /\ tasks[t].returned = patient_visits[tasks[t].visit_id]
       /\ tasks[t].returned.status = COMPLETED

C3_Witness ==
  \E t \in Tasks :
    /\ Finished(t, {"update_visit"})
    /\ tasks[t].visit_data = [NoData EXCEPT !.status = COMPLETED]
    /\ tasks[t].visit.status = OPEN
    /\ tasks[t].result = OK
    /\ ~has_assessment("nursing", tasks[t].visit_id)
    /\ ~has_assessment("radiology", tasks[t].visit_id)

(* C4: of two transition requests that read the same OPEN visit at most  *)
(* one commits: a transition that was read from OPEN is committed only    *)
(* while the visit is still OPEN, never after another request changed it. *)
C4_OneTransitionCommits ==
  [][\A t \in Tasks :
       ( /\ tasks[t].pc = "uv_commit"
         /\ tasks'[t].pc = "done" /\ tasks'[t].result = OK
         /\ IsTransition(t)
         /\ tasks[t].visit.status = OPEN )
       => patient_visits[tasks[t].visit_id].status = OPEN]_vars

(* two create_*_assessment requests of one kind for one visit that both  *)
(* found the visit OPEN and no assessment of that kind: they overlap      *)
ConcurrentCreates(t1, t2) ==
  /\ t1 # t2
  /\ Finished(t1, {"create_assessment"}) /\ Finished(t2, {"create_assessment"})
  /\ tasks[t1].kind = tasks[t2].kind
  /\ tasks[t1].visit_id = tasks[t2].visit_id
  /\ tasks[t1].existing = 0 /\ tasks[t2].existing = 0

(* C5: two concurrent create*Assessment calls of one kind for one OPEN    *)
(* visit end with exactly one success and one ConflictError; they never   *)
(* both succeed and the loser never receives a raw storage error.         *)
C5_OneCreateSucceeds ==
  \A t1, t2 \in Tasks :
    ( /\ ConcurrentCreates(t1, t2)
      /\ \A t3 \in Tasks \ {t1, t2} : tasks[t3].op # "create_assessment" )
    => \/ tasks[t1].result = OK /\ tasks[t2].result \in ConflictError
       \/ tasks[t2].result = OK /\ tasks[t1].result \in ConflictError

(* the kind of a submission is the form type of its form definition *)
submissions_of_kind(visit_id, kind) ==
  {s \in form_submissions :
     /\ s.visit_id = visit_id
     /\ s.submission_status # "rejected"
     /\ \E d \in form_definitions : d.form_id = s.form_id /\ d.form_type = kind}

(* C6: at most one non-rejected FormSubmission and at most one assessment *)
(* per (visit, kind).                                                     *)
C6_OnePerVisitAndKind ==
  \A v \in Visits, k \in Kinds :
    /\ Cardinality(submissions_of_kind(v, k)) <= 1
    /\ Cardinality(assessments_by_visit(k, v)) <= 1

(* C7: every status change of a visit follows the transition table, and  *)
(* a request whose target is not allowed for the status of the visit is   *)
(* rejected with StateError and leaves the visit unchanged.               *)
C7_StatusChangeInTable ==
  \A v \in Visits :
    patient_visits'[v].status # patient_visits[v].status
      => can_transition_to(patient_visits[v].status, patient_visits'[v].status)

C7_IllegalTargetRejected ==
  \A t \in Tasks :
    ( /\ tasks[t].pc \in {"uv_read", "rv_read"}
      /\ tasks'[t].pc = "done"
      /\ get_visit(tasks[t].visit_id) # NoVisit
      /\ \/ tasks[t].op = "reopen_visit"
            /\ ~can_transition_to(get_visit(tasks[t].visit_id).status, OPEN)
         \/ IsTransition(t)
            /\ ~can_transition_to(get_visit(tasks[t].visit_id).status,
                                  tasks[t].visit_data.status) )
    => /\ tasks'[t].result \in StateError
       /\ patient_visits' = patient_visits

C7_TransitionTable ==
  [][C7_StatusChangeInTable /\ C7_IllegalTargetRejected]_vars

(* C8: once a visit is CANCELLED it stays CANCELLED. *)
C8_CancelledIsTerminal ==
  [][\A v \in Visits :
       patient_visits[v].status = CANCELLED => patient_visits'[v].status = CANCELLED]_vars

(* C9: the status of every visit is one of OPEN, COMPLETED, CANCELLED,   *)
(* and a newly created visit has status OPEN.                             *)
C9_StatusDomain ==
  /\ [](\A v \in Visits : patient_visits[v].status \in VisitStatus)
  /\ [][\A v \in 1..Len(patient_visits') :
          v > Len(patient_visits) => patient_visits'[v].status = OPEN]_vars

C9_Witness ==
  \E v \in Visits :
    /\ patient_visits[v].status = CANCELLED
    /\ \E t \in Tasks : tasks[t].pc = "uv_commit" /\ tasks[t].visit_id = v

(* C10: with both assessments recorded, completeVisit on the OPEN visit   *)
(* succeeds, and a completeVisit on the visit once it is COMPLETED fails   *)
(* with StateError and leaves it COMPLETED.                                *)
C10_CompleteOnce ==
  \A t \in Tasks :
    ( /\ Finished(t, {"complete_visit"})
      /\ assessments_complete(tasks[t].visit_id) )
    => /\ tasks[t].visit.status = OPEN
          => /\ tasks[t].result = OK
             /\ patient_visits[tasks[t].visit_id].status = COMPLETED
       /\ tasks[t].visit.status = COMPLETED
          => /\ tasks[t].result \in StateError
             /\ patient_visits[tasks[t].visit_id] = tasks[t].visit

C10_Witness ==
  \E t \in Tasks :
    /\ Finished(t, {"complete_visit"})
    /\ assessments_complete(tasks[t].visit_id)
    /\ tasks[t].visit.status = COMPLETED
    /\ tasks[t].result \in StateError

(* ----------------------- claims C11 .. C20 ---------------------------- *)
(* C11: after createVisit, createNursingAssessment and                    *)
(* createRadiologyAssessment on one visit (each successful create leaves   *)
(* its assessment recorded), getCompletionStatus returns complete = true, *)
(* completeVisit succeeds and the visit is COMPLETED.                      *)
C11_Scenario ==
  \A t \in Tasks :
    /\ (Finished(t, {"create_assessment"}) /\ tasks[t].result = OK)
         => has_assessment(tasks[t].kind, tasks[t].visit_id)
    /\ ( /\ Finished(t, {"get_visit_assessments"})
         /\ tasks[t].visit_id \in Visits
         /\ assessments_complete(tasks[t].visit_id) )
         => /\ tasks[t].result = OK
            /\ tasks[t].status_info.assessments_complete
    /\ ( /\ Finished(t, {"complete_visit"})
         /\ tasks[t].visit.status = OPEN
         /\ assessments_complete(tasks[t].visit_id) )
         => /\ tasks[t].result = OK
            /\ tasks[t].returned.status = COMPLETED
            /\ patient_visits[tasks[t].visit_id].status = COMPLETED

C11_Witness ==
  \E t \in Tasks :
    /\ Finished(t, {"complete_visit"})
    /\ tasks[t].visit.status = OPEN
    /\ assessments_complete(tasks[t].visit_id)
    /\ tasks[t].result = OK
    /\ patient_visits[tasks[t].visit_id].status = COMPLETED

(* the step in which a handler commits its mutation and returns it *)
CommitsMutation(t) ==
  /\ tasks[t].pc \in {"cv_insert", "uv_commit", "ca_insert", "ua_commit"}
  /\ tasks'[t].pc = "done"
  /\ tasks'[t].result = OK

(* the id of the entity a finished handler mutated *)
MutatedId(task) ==
  CASE task.op \in {"create_visit", "update_visit", "complete_visit",
                    "cancel_visit", "reopen_visit"} -> task.visit_id
    [] task.op = "update_assessment" -> task.assessment_id
    [] OTHER -> task.submission_id

(* C12: every successful mutation appends exactly one audit entry whose   *)
(* resource id is the id of the mutated entity and whose action names the *)
(* operation; a step that is not a successful mutation appends none.      *)
C12_MutationAudited ==
  [][\A t \in Tasks :
       IF CommitsMutation(t)
         THEN /\ Len(audit_logs') = Len(audit_logs) + 1
              /\ audit_logs'[Len(audit_logs')].resource_id = MutatedId(tasks'[t])
              /\ audit_logs'[Len(audit_logs')].action = tasks[t].op
         ELSE tasks'[t] # tasks[t] => audit_logs' = audit_logs]_vars

(* C13: a COMPLETED -> OPEN request of an actor who is not an             *)
(* administrator, through reopenVisit or through updateVisit with status   *)
(* OPEN, is rejected with PermissionError and the visit stays COMPLETED.   *)
C13_ReopenNeedsPrivilege ==
  \A t \in Tasks :
    ( /\ Finished(t, {"reopen_visit", "update_visit"})
      /\ tasks[t].visit.status = COMPLETED
      /\ tasks[t].visit_data.status = OPEN
      /\ UserRole[tasks[t].actor] # "admin" )
    => /\ tasks[t].result \in PermissionError
       /\ patient_visits[tasks[t].visit_id].status = COMPLETED

(* the fields of a visit that may only be edited while it is OPEN *)
EditableFields == {"chief_complaint", "notes", "visit_date"}

(* C14: updateVisit with a patch of chief complaint, notes or visit date  *)
(* on a COMPLETED or CANCELLED visit fails with StateError and none of    *)
(* those fields changes.                                                  *)
C14_EditOnlyWhileOpen ==
  \A t \in Tasks :
    ( /\ Finished(t, {"update_visit"})
      /\ tasks[t].visit.status \in {COMPLETED, CANCELLED}
      /\ update_data(tasks[t].visit_data) \cap EditableFields # {} )
    => /\ tasks[t].result \in StateError
       /\ \A f \in EditableFields :
            patient_visits[tasks[t].visit_id][f] = tasks[t].visit[f]

(* the assessment a finished update request named belongs to a visit that *)
(* is COMPLETED or CANCELLED                                              *)
UpdatedOnClosedVisit(t) ==
  /\ Finished(t, {"update_assessment"})
  /\ tasks[t].assessment # NoAssessment
  /\ \E v \in Visits, s \in form_submissions :
       /\ s.submission_id = tasks[t].assessment.submission_id
       /\ s.visit_id = v
       /\ patient_visits[v].status \in {COMPLETED, CANCELLED}

(* C15: update*Assessment on an assessment whose visit is COMPLETED or    *)
(* CANCELLED fails with StateError and leaves every stored field of the   *)
(* assessment unchanged.                                                  *)
C15_UpdateOnClosedVisitFails ==
  \A t \in Tasks :
    UpdatedOnClosedVisit(t)
    => /\ tasks[t].result \in StateError
       /\ get_assessment(tasks[t].kind, tasks[t].assessment_id) = {tasks[t].assessment}

C15_Witness ==
  \E t \in Tasks :
    /\ UpdatedOnClosedVisit(t)
    /\ tasks[t].assessment_data = [NoRadiologyData EXCEPT !.notes = "a2"]
    /\ tasks[t].result = CannotUpdateClosed

C17_ExistingSubmissionConflicts ==
  [][\A t \in Tasks :
       ( /\ tasks[t].pc = "ca_existing"
         /\ tasks'[t] # tasks[t]
         /\ submissions_of_kind(tasks[t].visit_id, tasks[t].kind) # {} )
       => /\ tasks'[t].pc = "done"
          /\ tasks'[t].result \in ConflictError
          /\ form_submissions' = form_submissions
          /\ assessments' = assessments]_vars

(* C18: no state has a FormSubmission without its assessment row, so no   *)
(* caller observes a half-made assessment and a create that fails leaves  *)
(* no submission behind without an assessment.                            *)
C18_CreateIsAtomic ==
  \A s \in form_submissions :
    \E k \in Kinds : \E a \in assessments[k] : a.submission_id = s.submission_id

(* C19: getCompletionStatus returns hasNursing and hasRadiology as the    *)
(* stored assessments of the visit are, complete as their conjunction,    *)
(* and no step of it changes a table.                                     *)
C19_StatusIsPureQuery ==
  /\ [](\A t \in Tasks :
          Finished(t, {"get_visit_assessments"})
          => /\ tasks[t].result = OK
             /\ tasks[t].status_info.has_nursing
                  = has_assessment("nursing", tasks[t].visit_id)
             /\ tasks[t].status_info.has_radiology
                  = has_assessment("radiology", tasks[t].visit_id)
             /\ tasks[t].status_info.assessments_complete
                  = (tasks[t].status_info.has_nursing
                       /\ tasks[t].status_info.has_radiology))
  /\ [][\A t \in Tasks :
          (tasks[t].pc \in {"gva_nursing", "gva_radiology"} /\ tasks'[t] # tasks[t])
          => /\ patient_visits' = patient_visits
             /\ form_definitions' = form_definitions
             /\ form_submissions' = form_submissions
             /\ assessments' = assessments
             /\ audit_logs' = audit_logs]_vars

C19_Witness ==
  \E t \in Tasks :
    /\ Finished(t, {"get_visit_assessments"})
    /\ tasks[t].visit_id \in Visits
    /\ tasks[t].status_info.has_nursing
    /\ ~tasks[t].status_info.has_radiology
    /\ ~tasks[t].status_info.assessments_complete

BmiOf(a) ==
  IF a.weight_kg # NONE /\ a.height_cm # NONE
    THEN bmi(a.weight_kg, a.height_cm) ELSE NONE

(* C21: the BMI of every stored nursing assessment is present exactly     *)
(* when its weight and its height are both present, and then equals       *)
(* round(weight / (height / 100)^2, 1), after the create and after every  *)
(* patch, one that clears a dimension included.                           *)
C21_BmiIsDerived ==
  \A a \in assessments["nursing"] : a.bmi = BmiOf(a)

VitalColumns == DOMAIN Ranges \ {"weight_kg", "height_cm"}

(* C22: every stored vital sign lies in its range and the stored systolic *)
(* pressure is above the stored diastolic pressure when both are present; *)
(* a create or a patch that would break this ends with ValidationError.   *)
C22_StoredVitalsValid ==
  \A a \in assessments["nursing"] :
    /\ \A f \in VitalColumns :
         a[f] # NONE => Ranges[f][1] <= a[f] /\ a[f] <= Ranges[f][2]
    /\ ( a.blood_pressure_systolic # NONE /\ a.blood_pressure_diastolic # NONE )
         => a.blood_pressure_systolic > a.blood_pressure_diastolic

(* C23: the commit of update*Assessment gives the fields of the patch     *)
(* their patch values, changes the BMI only when the patch carries a      *)
(* weight or a height, keeps every other field of the row, never resets   *)
(* an absent field to null, and changes nothing else that is stored.      *)
C23_UpdateChangesOnlyPatch ==
  [][\A t \in Tasks :
       ( tasks[t].pc = "ua_commit" /\ tasks'[t].pc = "done" )
       => LET kind == tasks[t].kind
              patch == tasks[t].assessment_data
              fields == {f \in DOMAIN patch : patch[f] # UnsetOf(f)}
          IN /\ Cardinality(assessments'[kind]) = Cardinality(assessments[kind])
             /\ \A a \in assessments[kind] :
                  \E b \in assessments'[kind] :
                    /\ b.id = a.id
                    /\ a.id # tasks[t].assessment_id => b = a
                    /\ a.id = tasks[t].assessment_id
                         => \A f \in DOMAIN a :
                              IF f \in fields THEN b[f] = patch[f]
                              ELSE IF f = "bmi" /\ fields \cap {"weight_kg", "height_cm"} # {}
                                THEN TRUE
                              ELSE b[f] = a[f]
             /\ \A k \in Kinds \ {kind} : assessments'[k] = assessments[k]
             /\ UNCHANGED <<patient_visits, form_definitions, form_submissions,
                            audit_logs, now>>]_vars

C23_Witness ==
  \E t \in Tasks, a \in assessments["nursing"] :
    /\ Finished(t, {"update_assessment"})
    /\ tasks[t].result = OK
    /\ tasks[t].kind = "nursing"
    /\ tasks[t].assessment_data = [NoNursingData EXCEPT !.notes = "a2"]
    /\ a.id = tasks[t].assessment_id
    /\ a.notes = "a2"
    /\ a.weight_kg = 70 /\ a.height_cm = 160 /\ a.bmi = 273

(* the critical-vitals condition of the specification *)
CriticalVitals(a) ==
  \/ a.temperature_celsius # NONE
       /\ (a.temperature_celsius < 350 \/ a.temperature_celsius > 400)
  \/ a.pulse_bpm # NONE /\ (a.pulse_bpm < 50 \/ a.pulse_bpm > 150)
  \/ a.oxygen_saturation_percent # NONE /\ a.oxygen_saturation_percent < 900

(* C30: the critical-vitals flag the summary of a visit reports for its   *)
(* nursing assessment is true exactly when the temperature is present and *)
(* below 35.0 or above 40.0, or the pulse is present and below 50 or      *)
(* above 150, or the oxygen saturation is present and below 90.0.         *)
C30_CriticalVitalsFlag ==
  \A t \in Tasks :
    ( /\ Finished(t, {"get_visit_assessment_summary"})
      /\ tasks[t].result = OK
      /\ tasks[t].assessment # NoAssessment )
    => tasks[t].has_critical_vitals = CriticalVitals(tasks[t].assessment)

C30_Witness ==
  \E t \in Tasks :
    /\ Finished(t, {"get_visit_assessment_summary"})
    /\ tasks[t].result = OK
    /\ tasks[t].assessment # NoAssessment
    /\ tasks[t].assessment.temperature_celsius = 370
    /\ tasks[t].assessment.pulse_bpm = 80
    /\ tasks[t].assessment.oxygen_saturation_percent = 850
    /\ tasks[t].has_critical_vitals

(* the submissions an assessment of a kind references: stored, submitted  *)
(* and of a form of that kind                                             *)
SubmissionsOf(kind, a) ==
  {s \in form_submissions :
     /\ s.submission_id = a.submission_id
     /\ s.submission_status = "submitted"
     /\ \E d \in form_definitions : d.form_id = s.form_id /\ d.form_type = kind}

(* C24: every stored assessment references exactly one stored, submitted  *)
(* FormSubmission of its kind, no submission is referenced by two         *)
(* assessments, and a create that succeeded left such a pair behind.      *)
C24_OneSubmissionPerAssessment ==
  /\ \A k \in Kinds : \A a \in assessments[k] :
       /\ Cardinality(SubmissionsOf(k, a)) = 1
       /\ Cardinality({s \in form_submissions : s.submission_id = a.submission_id}) = 1
       /\ \A j \in Kinds : \A b \in assessments[j] :
            b.submission_id = a.submission_id => (j = k /\ b = a)
  /\ \A t \in Tasks :
       ( Finished(t, {"create_assessment"}) /\ tasks[t].result = OK )
       => \E a \in assessments[tasks[t].kind] :
            /\ a.submission_id = tasks[t].submission_id
            /\ \E s \in SubmissionsOf(tasks[t].kind, a) : s.visit_id = tasks[t].visit_id

C24_Witness ==
  /\ \A k \in Kinds : \E a \in assessments[k] : SubmissionsOf(k, a) # {}
  /\ \E t \in Tasks :
       /\ Finished(t, {"create_assessment"})
       /\ tasks[t].result = OK
       /\ tasks[t].kind = "radiology"

PhiResourceTypes == {"visit", "assessment", "document", "patient"}

(* C26: shouldLog is true for CREATE, UPDATE and DELETE on any resource   *)
(* type, true for any action, READ included, on a visit, an assessment, a *)
(* document or a patient, true for login, logout and token refresh, and   *)
(* false for a READ of any other resource type.                           *)
C26_ShouldLogPolicy ==
  \A t \in Tasks :
    Finished(t, {"should_log_action"})
    => /\ ( \/ tasks[t].audit_action \in {"CREATE", "UPDATE", "DELETE"}
            \/ tasks[t].resource_type \in PhiResourceTypes
            \/ tasks[t].audit_action \in {"LOGIN", "LOGOUT", "TOKEN_REFRESH"} )
          => tasks[t].should_log
       /\ ( tasks[t].audit_action = "READ"
            /\ tasks[t].resource_type \notin PhiResourceTypes )
          => ~tasks[t].should_log

(* the step is the retention purge finishing in task t *)
PurgeStep(t) ==
  /\ tasks[t].pc = "idle"
  /\ tasks'[t].pc = "done"
  /\ tasks'[t].op = "cleanup_old_logs"

(* C27: a step that changes the audit log either appends one entry and    *)
(* keeps the entries there were, or is the retention purge, which removes *)
(* exactly the entries older than the retention horizon and keeps every   *)
(* younger entry as it was, in order.                                     *)
C27_AuditLogAppendOnly ==
  [][audit_logs' # audit_logs
     => \/ /\ Len(audit_logs') = Len(audit_logs) + 1
           /\ SubSeq(audit_logs', 1, Len(audit_logs)) = audit_logs
        \/ \E t \in Tasks :
             /\ PurgeStep(t)
             /\ audit_logs' =
                  SelectSeq(audit_logs,
                            LAMBDA e : now - e.timestamp <= tasks'[t].retention_days)]_vars

C27_Witness ==
  \E t \in Tasks :
    /\ Finished(t, {"cleanup_old_logs"})
    /\ tasks[t].deleted = 1
    /\ Len(audit_logs) = 2
    /\ now - audit_logs[1].timestamp = tasks[t].retention_days
    /\ audit_logs[2].timestamp = now

(* C28: every retention purge leaves a new audit entry, one that was not  *)
(* in the log before the purge, behind.                                   *)
C28_PurgeIsLogged ==
  [][\A t \in Tasks :
       PurgeStep(t)
       => \E i \in 1..Len(audit_logs') :
            \A j \in 1..Len(audit_logs) : audit_logs'[i] # audit_logs[j]]_vars

(* C29: the stored audit entries and the stored mutations correspond:     *)
(* every persisted visit has an audit entry that describes it, and every  *)
(* audit entry of a visit describes a persisted visit.                    *)
C29_AuditMatchesMutations ==
  /\ \A v \in 1..Len(patient_visits) :
       \E i \in 1..Len(audit_logs) :
         audit_logs[i].resource_type = "visit" /\ audit_logs[i].resource_id = v
  /\ \A i \in 1..Len(audit_logs) :
       audit_logs[i].resource_type = "visit"
       => audit_logs[i].resource_id \in 1..Len(patient_visits)

(* C32: no step removes a visit: the table of visits never shrinks and    *)
(* every visit keeps its key, its patient and its creator.                *)
C32_VisitsNeverDeleted ==
  [][/\ Len(patient_visits') >= Len(patient_visits)
     /\ \A v \in 1..Len(patient_visits) :
          /\ patient_visits'[v].patient_id = patient_visits[v].patient_id
          /\ patient_visits'[v].created_by = patient_visits[v].created_by
          /\ patient_visits'[v].status \in VisitStatus]_vars

C32_Witness ==
  \E t \in Tasks :
    /\ Finished(t, {"cancel_visit"})
    /\ tasks[t].result = OK
    /\ tasks[t].visit_id \in 1..Len(patient_visits)
    /\ patient_visits[tasks[t].visit_id].status = CANCELLED

(* the last-updater reference a visit row carries, 0 for none *)
LastUpdater(visit) ==
  IF "updated_by" \in DOMAIN visit THEN visit.updated_by ELSE 0

(* C33: after a successful status transition or field update by an actor  *)
(* the last-updater reference of the visit is that actor.                 *)
C33_LastUpdaterIsActor ==
  \A t \in Tasks :
    ( /\ Finished(t, {"update_visit", "complete_visit", "cancel_visit", "reopen_visit"})
      /\ tasks[t].result = OK
      /\ update_data(tasks[t].visit_data) # {} )
    => LastUpdater(patient_visits[tasks[t].visit_id]) = tasks[t].actor

(* C34: the visit createVisit returns and stores carries the visit date,  *)
(* the chief complaint and the notes of the request.                      *)
C34_CreateStoresFields ==
  \A t \in Tasks :
    ( Finished(t, {"create_visit"}) /\ tasks[t].result = OK )
    => \A f \in {"visit_date", "chief_complaint", "notes"} :
         /\ tasks[t].returned[f] = tasks[t].visit_data[f]
         /\ patient_visits[tasks[t].visit_id][f] = tasks[t].visit_data[f]

(* C38: no step removes an assessment or a submission, and a visit that   *)
(* has an assessment of a kind has one after every step.                  *)
C38_AssessmentsNeverRemoved ==
  [][/\ form_submissions \subseteq form_submissions'
     /\ \A k \in Kinds :
          /\ \A a \in assessments[k] : \E b \in assessments'[k] : b.id = a.id
          /\ \A v \in 1..Len(patient_visits) :
               has_assessment(k, v) => has_assessment(k, v)']_vars

C38_Witness ==
  \E t \in Tasks :
    /\ Finished(t, {"reopen_visit"})
    /\ tasks[t].result = OK
    /\ patient_visits[tasks[t].visit_id].status = OPEN
    /\ has_assessment("nursing", tasks[t].visit_id)
    /\ has_assessment("radiology", tasks[t].visit_id)

(* C39: updateVisit with a patch whose status is the status the visit has *)
(* ends with the illegal-transition error and the row of the visit,       *)
(* the other fields of the patch included, stays as it was.               *)
C39_SameStatusRejected ==
  \A t \in Tasks :
    ( /\ Finished(t, {"update_visit"})
      /\ tasks[t].visit # NoVisit
      /\ tasks[t].visit_data.status = tasks[t].visit.status )
    => /\ tasks[t].result = CannotTransition
       /\ patient_visits[tasks[t].visit_id] = tasks[t].visit

C39_Witness ==
  \E t \in Tasks :
    /\ Finished(t, {"update_visit"})
    /\ tasks[t].visit.status = COMPLETED
    /\ tasks[t].visit_data = [NoData EXCEPT !.status = COMPLETED, !.notes = "n1"]
    /\ tasks[t].result = CannotTransition
    /\ patient_visits[tasks[t].visit_id].notes = NULL

(* the positions at which a handler runs a by-visit assessment lookup *)
ByVisitLookups == {"ca_existing", "gva_nursing", "gva_radiology"}

(* C36: no by-visit assessment lookup, in a create or in the completion   *)
(* status, ends with the multiple-rows error, whatever creates ran        *)
(* concurrently before it.                                                *)
C36_LookupNeverFindsSeveral ==
  [][\A t \in Tasks :
       ( tasks[t].pc \in ByVisitLookups /\ tasks'[t].pc = "done" )
       => tasks'[t].result # MultipleResultsFound]_vars

(* C37: there is at most one active form definition of each kind, and the *)
(* submissions of one kind all carry its form id.                         *)
C37_OneFormDefinitionPerKind ==
  \A k \in Kinds :
    /\ Cardinality(form_definitions_of(k)) <= 1
    /\ \A r, s \in form_submissions :
         ( \E d, e \in form_definitions :
             /\ d.form_id = r.form_id /\ e.form_id = s.form_id
             /\ d.form_type = k /\ e.form_type = k )
         => r.form_id = s.form_id

(* C31: every stored radiology assessment has findings whose trimmed      *)
(* length is between 10 and 1000 and a diagnosis that is absent or has a  *)
(* trimmed length between 10 and 500; an empty or whitespace-only         *)
(* diagnosis is stored as absent.                                         *)
C31_RadiologyTextValid ==
  \A a \in assessments["radiology"] :
    /\ a.findings # NoneText
    /\ 10 <= a.findings.body /\ a.findings.body <= 1000
    /\ \/ a.diagnosis = NoneText
       \/ 10 <= a.diagnosis.body /\ a.diagnosis.body <= 500

C31_Witness ==
  \E t \in Tasks, a \in assessments["radiology"] :
    /\ Finished(t, {"update_assessment"})
    /\ tasks[t].result = IntegrityError
    /\ tasks[t].assessment_data = [NoRadiologyData EXCEPT !.findings = NoneText]
    /\ a.id = tasks[t].assessment_id
    /\ a.findings = Text(0, 1000)
    /\ a.diagnosis = NoneText

(* C35: a step that adds an assessment or changes a stored one is taken   *)
(* while the visit of that assessment is OPEN, whatever completeVisit or  *)
(* cancelVisit ran next to the create or update.                          *)
C35_WriteOnlyWhileOpen ==
  [][\A k \in Kinds : \A b \in assessments'[k] \ assessments[k] :
       \E s \in form_submissions :
         /\ s.submission_id = b.submission_id
         /\ patient_visits[s.visit_id].status = OPEN]_vars

====
